---- MODULE Spec2Model ----
(***************************************************************************)
(* FTPToGCSOperator: transfer of the files matching a source path from an  *)
(* FTP server to a storage bucket.  Strings are sequences of one-character *)
(* strings, so that strip / startswith / concatenation are computed.       *)
(* execute is one sequential run; every call to a collaborator (secrets,   *)
(* storage client, ftplib) is one step whose outcome (return or raise) is  *)
(* chosen nondeterministically.  calls is the history of those calls.      *)
(***************************************************************************)
EXTENDS Integers, Sequences, FiniteSets, TLC

VARIABLES
    name,                \* raw destination_bucket argument of __init__
    path,                \* raw destination_path argument of __init__ (or None)
    source_path,         \* raw source_path argument of __init__
    move_object,         \* self.move_object
    destination_path,    \* self.destination_path
    destination_bucket,  \* self.destination_bucket
    ftp_folder,          \* self.ftp_folder
    ftp_file,            \* self.ftp_file
    pc,                  \* position of execute
    calls,               \* history of the calls made to collaborators
    listing,             \* the list returned by ftp.nlst
    n,                   \* index in listing of the current loop iteration
    filename,            \* the loop variable of execute (Unbound before the loop)
    error                \* the exception execute terminated with (NoError: returned)

vars == <<name, path, source_path, move_object, destination_path,
          destination_bucket, ftp_folder, ftp_file, pc, calls, listing, n,
          filename, error>>

config == <<name, path, source_path, move_object, destination_path,
            destination_bucket, ftp_folder, ftp_file>>

----------------------------------------------------------------------------
(* Bounds *)

MaxMatches == 3
MaxNameLen == 7
MaxPathLen == 5
MaxSourceLen == 5

----------------------------------------------------------------------------
(* Values *)

\* the absent destination_path: a value that is no string of characters
None == <<"None">>
Unbound == "Unbound"
Slash == "/"
Scheme == <<"g", "s", ":", "/", "/">>

RawBuckets ==
    { <<>>,
      <<"/", "/", "/">>,
      Scheme,
      <<"b">>,
      Scheme \o <<"b", "/">> }

RawPaths ==
    { None,
      <<>>,
      <<"i", "n">>,
      <<"/", "i", "n", "/">> }

RawSources ==
    { <<"f", "*">>,
      <<"d", "/", "f", "*">> }

FileNames == { <<"a">>, <<"b">> }

Listings == UNION { [1..k -> FileNames] : k \in 0..MaxMatches }

NoError == [type |-> "None", msg |-> ""]
AirflowException(m) == [type |-> "AirflowException", msg |-> m]
RawException(op) == [type |-> "Exception", msg |-> op]
UnboundLocalError == [type |-> "UnboundLocalError", msg |-> "filename"]

----------------------------------------------------------------------------
(* str methods *)

startswith(s, p) == Len(s) >= Len(p) /\ SubSeq(s, 1, Len(p)) = p

RECURSIVE rstrip(_)
rstrip(s) ==
    IF s # <<>> /\ s[Len(s)] = Slash THEN rstrip(SubSeq(s, 1, Len(s) - 1)) ELSE s

RECURSIVE lstrip(_)
lstrip(s) ==
    IF s # <<>> /\ s[1] = Slash THEN lstrip(SubSeq(s, 2, Len(s))) ELSE s

strip(s) == lstrip(rstrip(s))

\* index of the first "/" of s, 0 when there is none
RECURSIVE find(_)
find(s) ==
    IF s = <<>> THEN 0
    ELSE IF s[1] = Slash THEN 1
    ELSE IF find(Tail(s)) = 0 THEN 0 ELSE find(Tail(s)) + 1

\* s.split('/'): the segments between the "/" of s, at least one
RECURSIVE split(_)
split(s) ==
    IF find(s) = 0 THEN <<s>>
    ELSE <<SubSeq(s, 1, find(s) - 1)>> \o split(SubSeq(s, find(s) + 1, Len(s)))

\* '/'.join(parts)
RECURSIVE join(_)
join(parts) ==
    IF parts = <<>> THEN <<>>
    ELSE IF Len(parts) = 1 THEN parts[1]
    ELSE parts[1] \o <<Slash>> \o join(Tail(parts))

\* '/'.join(temp[0:-1]) with only the first segment taken
split_folderFirstSegment(s) ==
    LET temp == split(s) IN IF Len(temp) = 1 THEN <<>> ELSE temp[1]

\* temp = s.split('/'); '/'.join(temp[0:-1])
split_folder(s) ==
    LET temp == split(s) IN join(SubSeq(temp, 1, Len(temp) - 1))

\* temp = s.split('/'); temp[-1]
split_file(s) ==
    LET temp == split(s) IN temp[Len(temp)]

----------------------------------------------------------------------------
(* Construction *)

\* _set_destination_path dropping one leading "/" only
_set_destination_pathOneSlash(p) ==
    IF p # None
    THEN LET q == rstrip(p) IN IF startswith(q, <<Slash>>) THEN Tail(q) ELSE q
    ELSE <<>>

\* _set_destination_path without the rstrip
_set_destination_pathNoRstrip(p) ==
    IF p # None
    THEN IF startswith(p, <<Slash>>) THEN lstrip(p) ELSE p
    ELSE <<>>

_set_destination_path(p) ==
    IF p # None
    THEN LET q == rstrip(p) IN IF startswith(q, <<Slash>>) THEN lstrip(q) ELSE q
    ELSE <<>>

_set_bucket_name(b) ==
    LET bucket == IF ~startswith(b, Scheme) THEN b ELSE SubSeq(b, 6, Len(b))
    IN strip(bucket)

Init ==
    /\ name \in RawBuckets
    /\ path \in RawPaths
    /\ source_path \in RawSources
    /\ move_object \in BOOLEAN
    /\ destination_path = _set_destination_path(path)
    /\ destination_bucket = _set_bucket_name(name)
    /\ ftp_folder = split_folder(source_path)
    /\ ftp_file = split_file(source_path)
    /\ pc = "get_connection"
    /\ calls = <<>>
    /\ listing = <<>>
    /\ n = 0
    /\ filename = Unbound
    /\ error = NoError

----------------------------------------------------------------------------
(* execute *)

Call(op, i, arg, ok) == [op |-> op, i |-> i, arg |-> arg, ok |-> ok]

Log(op, i, arg, ok) == calls' = Append(calls, Call(op, i, arg, ok))

\* an exception leaves execute
Raise(e) == pc' = "done" /\ error' = e

\* c = Connection.get_connection_from_secrets(self.ftp_conn_id)
GetConnection ==
    /\ pc = "get_connection"
    /\ \E ok \in BOOLEAN :
        /\ Log("get_connection", 0, <<>>, ok)
        /\ IF ok THEN pc' = "client" /\ UNCHANGED error
                 ELSE Raise(RawException("get_connection"))
    /\ UNCHANGED <<config, listing, n, filename>>

\* storage_client = storage.Client()
StorageClient ==
    /\ pc = "client"
    /\ \E ok \in BOOLEAN :
        /\ Log("Client", 0, <<>>, ok)
        /\ IF ok THEN pc' = "get_bucket" /\ UNCHANGED error
                 ELSE Raise(RawException("Client"))
    /\ UNCHANGED <<config, listing, n, filename>>

\* dest_bucket = storage_client.get_bucket(self.destination_bucket)
GetBucket ==
    /\ pc = "get_bucket"
    /\ \E ok \in BOOLEAN :
        /\ Log("get_bucket", 0, destination_bucket, ok)
        /\ IF ok THEN pc' = "connect" /\ UNCHANGED error
                 ELSE Raise(RawException("get_bucket"))
    /\ UNCHANGED <<config, listing, n, filename>>

\* Connect with the constructor inside the try block of login
ConnectInLoginTry ==
    /\ pc = "connect"
    /\ \E ok \in BOOLEAN :
        /\ Log("connect", 0, <<>>, ok)
        /\ pc' = IF ok THEN "login" ELSE "except_login"
    /\ UNCHANGED <<config, listing, n, filename, error>>

\* ftp = ftplib.FTP(c.host), and its except clause
Connect ==
    /\ pc = "connect"
    /\ \E ok \in BOOLEAN :
        /\ Log("connect", 0, <<>>, ok)
        /\ IF ok THEN pc' = "login" /\ UNCHANGED error
                 ELSE Raise(AirflowException("Error connecting to"))
    /\ UNCHANGED <<config, listing, n, filename>>

\* ftp.login(c.login, c.get_password())
Login ==
    /\ pc = "login"
    /\ \E ok \in BOOLEAN :
        /\ Log("login", 0, <<>>, ok)
        /\ pc' = IF ok THEN "cwd" ELSE "except_login"
    /\ UNCHANGED <<config, listing, n, filename, error>>

\* ExceptLogin without its ftp.quit()
ExceptLoginNoQuit ==
    /\ pc = "except_login"
    /\ Raise(AirflowException("Cannot login"))
    /\ UNCHANGED <<config, calls, listing, n, filename>>

\* except clause of login: ftp.quit(), then raise
ExceptLogin ==
    /\ pc = "except_login"
    /\ \E ok \in BOOLEAN :
        /\ Log("quit", 0, <<>>, ok)
        /\ IF ok THEN Raise(AirflowException("Cannot login"))
                 ELSE Raise(RawException("quit"))
    /\ UNCHANGED <<config, listing, n, filename>>

\* Cwd going on to the listing although cwd raised
CwdIgnoreFailure ==
    /\ pc = "cwd"
    /\ \E ok \in BOOLEAN : Log("cwd", 0, ftp_folder, ok)
    /\ pc' = "nlst"
    /\ UNCHANGED <<config, listing, n, filename, error>>

\* ftp.cwd(self.ftp_folder)
Cwd ==
    /\ pc = "cwd"
    /\ \E ok \in BOOLEAN :
        /\ Log("cwd", 0, ftp_folder, ok)
        /\ pc' = IF ok THEN "nlst" ELSE "except_cwd"
    /\ UNCHANGED <<config, listing, n, filename, error>>

\* except clause of cwd: ftp.quit(), then raise
ExceptCwd ==
    /\ pc = "except_cwd"
    /\ \E ok \in BOOLEAN :
        /\ Log("quit", 0, <<>>, ok)
        /\ IF ok THEN Raise(AirflowException("Error in folder"))
                 ELSE Raise(RawException("quit"))
    /\ UNCHANGED <<config, listing, n, filename>>

\* ForNext leaving the loop one element early
ForNextSkipLast(l) ==
    IF n < Len(l) - 1
    THEN /\ n' = n + 1
         /\ filename' = l[n + 1]
         /\ pc' = "open"
    ELSE /\ pc' = "quit"
         /\ UNCHANGED <<n, filename>>

\* the for statement takes the next element of l, or leaves the loop
ForNext(l) ==
    IF n < Len(l)
    THEN /\ n' = n + 1
         /\ filename' = l[n + 1]
         /\ pc' = "open"
    ELSE /\ pc' = "quit"
         /\ UNCHANGED <<n, filename>>

\* ftp.nlst(self.ftp_file): the whole list is returned before the loop starts
Nlst ==
    /\ pc = "nlst"
    /\ \/ \E l \in Listings :
            /\ Log("nlst", 0, ftp_file, TRUE)
            /\ listing' = l
            /\ ForNext(l)
       \/ /\ Log("nlst", 0, ftp_file, FALSE)
          /\ pc' = "except_loop"
          /\ UNCHANGED <<listing, n, filename>>
    /\ UNCHANGED <<config, error>>

\* file_dest without the test for an empty destination_path
file_destAlwaysJoin(f) == destination_path \o <<Slash>> \o f

\* file_dest of one loop iteration
file_dest(f) ==
    IF Len(destination_path) > 0 THEN destination_path \o <<Slash>> \o f ELSE f

\* dest_blob = dest_bucket.blob(file_dest); with dest_blob.open("wb")
Open ==
    /\ pc = "open"
    /\ \E ok \in BOOLEAN :
        /\ Log("open", n, file_dest(filename), ok)
        /\ pc' = IF ok THEN "retrbinary" ELSE "except_loop"
    /\ UNCHANGED <<config, listing, n, filename, error>>

\* Retrbinary on a stream opened without the with statement
RetrbinaryNoWith ==
    /\ pc = "retrbinary"
    /\ \E ok \in BOOLEAN :
        /\ Log("retrbinary", n, filename, ok)
        /\ pc' = IF ok THEN "close" ELSE "except_loop"
    /\ UNCHANGED <<config, listing, n, filename, error>>

\* ftp.retrbinary('RETR ' + filename, write_stream.write)
Retrbinary ==
    /\ pc = "retrbinary"
    /\ \E ok \in BOOLEAN : Log("retrbinary", n, filename, ok)
    /\ pc' = "close"
    /\ UNCHANGED <<config, listing, n, filename, error>>

\* AfterWith with an error of the stream's close swallowed
AfterWithIgnoreClose(retrieved, closed) ==
    IF retrieved
    THEN IF move_object
         THEN pc' = "delete" /\ UNCHANGED <<n, filename>>
         ELSE ForNext(listing)
    ELSE pc' = "except_loop" /\ UNCHANGED <<n, filename>>

\* AfterWith going on to the next match after a failed transfer
AfterWithBestEffort(retrieved, closed) ==
    IF retrieved /\ closed /\ move_object
    THEN pc' = "delete" /\ UNCHANGED <<n, filename>>
    ELSE ForNext(listing)

\* where execute continues after the with statement closed the stream
AfterWith(retrieved, closed) ==
    IF retrieved /\ closed
    THEN IF move_object
         THEN pc' = "delete" /\ UNCHANGED <<n, filename>>
         ELSE ForNext(listing)
    ELSE pc' = "except_loop" /\ UNCHANGED <<n, filename>>

\* the with statement closes write_stream, whether retrbinary returned or raised
Close ==
    /\ pc = "close"
    /\ \E ok \in BOOLEAN :
        /\ Log("close", n, file_dest(filename), ok)
        /\ AfterWith(calls[Len(calls)].ok, ok)
    /\ UNCHANGED <<config, listing, error>>

\* AfterDelete going on to the next match after a failed delete
AfterDeleteContinue(deleted) == ForNext(listing)

\* where execute continues after ftp.delete
AfterDelete(deleted) ==
    IF deleted
    THEN ForNext(listing)
    ELSE pc' = "except_loop" /\ UNCHANGED <<n, filename>>

\* if self.move_object: ftp.delete(filename)
Delete ==
    /\ pc = "delete"
    /\ \E ok \in BOOLEAN :
        /\ Log("delete", n, filename, ok)
        /\ AfterDelete(ok)
    /\ UNCHANGED <<config, listing, error>>

\* the exception raised by the raise statement of the loop's except clause:
\* its message reads filename, which is unbound when nlst raised
LoopError(f) ==
    IF f = Unbound THEN UnboundLocalError
    ELSE AirflowException("Error reading file")

\* except clause of the loop: ftp.quit(), then raise
ExceptLoop ==
    /\ pc = "except_loop"
    /\ \E ok \in BOOLEAN :
        /\ Log("quit", 0, <<>>, ok)
        /\ IF ok THEN Raise(LoopError(filename))
                 ELSE Raise(RawException("quit"))
    /\ UNCHANGED <<config, listing, n, filename>>

\* the final ftp.quit()
Quit ==
    /\ pc = "quit"
    /\ \E ok \in BOOLEAN :
        /\ Log("quit", 0, <<>>, ok)
        /\ IF ok THEN pc' = "done" /\ UNCHANGED error
                 ELSE Raise(RawException("quit"))
    /\ UNCHANGED <<config, listing, n, filename>>

Next ==
    \/ GetConnection
    \/ StorageClient
    \/ GetBucket
    \/ Connect
    \/ Login
    \/ ExceptLogin
    \/ Cwd
    \/ ExceptCwd
    \/ Nlst
    \/ Open
    \/ Retrbinary
    \/ Close
    \/ Delete
    \/ ExceptLoop
    \/ Quit

Spec == Init /\ [][Next]_vars

----------------------------------------------------------------------------
(* __init__ on arguments drawn from all the strings of a bounded length:   *)
(* one argument is drawn, the other two are fixed, since each field is     *)
(* computed from one argument alone.                                       *)

Strings(alphabet, len) == UNION { [1..k -> alphabet] : k \in 0..len }

BucketNames == Strings({"/", "g", "s", ":"}, MaxNameLen)
DestinationPaths == Strings({"/", "a"}, MaxPathLen) \cup {None}
SourcePaths == Strings({"/", "f", "*"}, MaxSourceLen)

InitArgs ==
    /\ \/ name \in BucketNames /\ path = None /\ source_path = <<"f">>
       \/ name = <<"b">> /\ path \in DestinationPaths /\ source_path = <<"f">>
       \/ name = <<"b">> /\ path = None /\ source_path \in SourcePaths
    /\ move_object = FALSE
    /\ destination_path = <<>>
    /\ destination_bucket = <<>>
    /\ ftp_folder = <<>>
    /\ ftp_file = <<>>
    /\ pc = "new"
    /\ calls = <<>>
    /\ listing = <<>>
    /\ n = 0
    /\ filename = Unbound
    /\ error = NoError

\* the assignments of __init__
Construct ==
    /\ pc = "new"
    /\ destination_path' = _set_destination_path(path)
    /\ destination_bucket' = _set_bucket_name(name)
    /\ ftp_folder' = split_folder(source_path)
    /\ ftp_file' = split_file(source_path)
    /\ pc' = "get_connection"
    /\ UNCHANGED <<name, path, source_path, move_object, calls, listing, n,
                   filename, error>>

NextInit == Construct

SpecInit == InitArgs /\ [][NextInit]_vars

Constructed == pc # "new"

----------------------------------------------------------------------------
(* Reading the history *)

Idx(op) == { k \in 1..Len(calls) : calls[k].op = op }
Count(op) == Cardinality(Idx(op))
Succeeded(op) == \E k \in Idx(op) : calls[k].ok
Failed(op) == \E k \in Idx(op) : ~calls[k].ok
Terminated == pc = "done"
Returned == pc = "done" /\ error = NoError
PerMatchOps == {"open", "retrbinary", "delete"}

\* the call of op for the i-th match happened before position k (with result ok)
Before(k, op, i, ok) ==
    \E j \in 1..(k - 1) : calls[j].op = op /\ calls[j].i = i /\ calls[j].ok = ok

----------------------------------------------------------------------------
(* C1: in every run in which connect succeeded, whichever later stage fails *)
(* or none, the FTP session's close (quit) has been invoked exactly once    *)
(* when the run terminates, and it is never invoked more than once.         *)

C1_CloseExactlyOnce ==
    /\ Count("quit") <= 1
    /\ (Terminated /\ Succeeded("connect")) => Count("quit") = 1

C1_Witness ==
    /\ Terminated
    /\ Succeeded("connect")
    /\ Failed("delete")
    /\ Count("quit") = 1

----------------------------------------------------------------------------
(* C2: a delete of a remote file has been issued only if move_object is     *)
(* true, the retrieve of that same match returned before it, and the        *)
(* destination write stream of that match was then closed without error     *)
(* before the delete.                                                       *)

C2_DeleteOnlyAfterRetrieve ==
    \A k \in Idx("delete") :
        /\ move_object
        /\ \E r \in 1..(k - 1), c \in 1..(k - 1) :
            /\ r < c
            /\ calls[r] = Call("retrbinary", calls[k].i, calls[k].arg, TRUE)
            /\ calls[c].op = "close"
            /\ calls[c].i = calls[k].i
            /\ calls[c].ok

C2_Witness ==
    /\ Count("delete") >= 2
    /\ Failed("close")

----------------------------------------------------------------------------
(* C3: if retrieve fails for the i-th match, every match before i has a     *)
(* destination object that was opened and closed, the i-th stream was       *)
(* opened and is closed without a successful retrieve, nothing is attempted *)
(* for a later match, and the run ends in failure.                          *)

C3_RetrieveFailureStops ==
    \A k \in Idx("retrbinary") :
        ~calls[k].ok =>
            LET i == calls[k].i IN
            /\ \A m \in 1..(i - 1) :
                Before(k, "open", m, TRUE) /\ Before(k, "close", m, TRUE)
            /\ Before(k, "open", i, TRUE)
            /\ ~\E j \in 1..Len(calls) :
                    calls[j].op = "retrbinary" /\ calls[j].i = i /\ calls[j].ok
            /\ pc # "close" =>
                   (Len(calls) > k /\ calls[k + 1].op = "close" /\ calls[k + 1].i = i)
            /\ \A j \in 1..Len(calls) :
                   calls[j].op \in PerMatchOps => calls[j].i <= i
            /\ \A j \in (k + 1)..Len(calls) : calls[j].op \notin PerMatchOps
            /\ Terminated => error # NoError

C3_Witness ==
    /\ Terminated
    /\ Len(listing) = 3
    /\ \E k \in Idx("retrbinary") : calls[k].i = 2 /\ ~calls[k].ok

----------------------------------------------------------------------------
(* C4: with move_object true, if delete fails for a match, nothing is       *)
(* attempted for a later match, the session is closed exactly once and the  *)
(* run ends in failure.                                                     *)

C4_DeleteFailureStops ==
    \A k \in Idx("delete") :
        ~calls[k].ok =>
            /\ \A j \in 1..Len(calls) :
                   calls[j].op \in PerMatchOps => calls[j].i <= calls[k].i
            /\ \A j \in (k + 1)..Len(calls) : calls[j].op \notin PerMatchOps
            /\ Count("quit") <= 1
            /\ Terminated => (Count("quit") = 1 /\ error # NoError)

C4_Witness ==
    /\ Terminated
    /\ move_object
    /\ Len(listing) >= 2
    /\ \E k \in Idx("delete") : calls[k].i = 1 /\ ~calls[k].ok

----------------------------------------------------------------------------
(* C5: every run that fails terminates with one typed error whose kind      *)
(* identifies the first stage that failed (ConnectionError for connect,     *)
(* AuthError for authenticate, NavigationError for changeDirectory,         *)
(* TransferError for retrieve, DeleteError for delete); a failure of list   *)
(* or of another step is never untyped nor the error of a different stage.  *)
(* Stated on the runs whose first failure is an FTP stage or a stream       *)
(* operation and in which close (quit) did not fail.                        *)

\* the error kind that an exception of execute carries
Kind(e) ==
    IF e.type # "AirflowException" THEN "Untyped"
    ELSE CASE e.msg = "Error connecting to" -> "ConnectionError"
           [] e.msg = "Cannot login" -> "AuthError"
           [] e.msg = "Error in folder" -> "NavigationError"
           [] e.msg = "Error reading file" -> "TransferError"
           [] OTHER -> "Untyped"

\* the kind the taxonomy gives to a failure of the call op
StageKind(op) ==
    CASE op = "connect" -> "ConnectionError"
      [] op = "login" -> "AuthError"
      [] op = "cwd" -> "NavigationError"
      [] op = "retrbinary" -> "TransferError"
      [] op = "delete" -> "DeleteError"
      [] OTHER -> "Other"

StageKinds ==
    {"ConnectionError", "AuthError", "NavigationError", "TransferError", "DeleteError"}

FirstFailure == CHOOSE k \in 1..Len(calls) :
    ~calls[k].ok /\ \A j \in 1..(k - 1) : calls[j].ok

FtpStageOps ==
    {"connect", "login", "cwd", "nlst", "open", "retrbinary", "close", "delete"}

C5_TypedErrorOfFirstFailedStage ==
    (/\ Terminated
     /\ error # NoError
     /\ ~Failed("quit")
     /\ calls[FirstFailure].op \in FtpStageOps) =>
        LET op == calls[FirstFailure].op IN
        /\ Kind(error) # "Untyped"
        /\ StageKind(op) \in StageKinds => Kind(error) = StageKind(op)
        /\ StageKind(op) \notin StageKinds => Kind(error) \notin StageKinds

----------------------------------------------------------------------------
(* C6: a failure of close (quit) never changes the outcome of the run: if   *)
(* it fails after every other call succeeded the run still returns, and if  *)
(* it fails in a failure handler the run still ends with the error of the   *)
(* stage that failed.                                                       *)

C6_CloseFailureSuppressed ==
    (Terminated /\ Failed("quit")) =>
        /\ error # RawException("quit")
        /\ (\A k \in 1..Len(calls) : calls[k].op # "quit" => calls[k].ok)
               => error = NoError

----------------------------------------------------------------------------
(* C7: when the listing returns zero matches, the run closes the session,   *)
(* returns successfully, and opens no write stream, issues no retrieve and  *)
(* no delete.                                                               *)

C7_EmptyListingIsNoOp ==
    (Succeeded("nlst") /\ listing = <<>>) =>
        /\ \A k \in 1..Len(calls) : calls[k].op \notin PerMatchOps
        /\ Terminated => (Count("quit") = 1 /\ error = NoError)

----------------------------------------------------------------------------
(* C8: the sequence of destination keys for which write streams are opened  *)
(* is the listing, in the order the server reported it, with each name      *)
(* mapped to prefix + "/" + name when the prefix is non-empty and to the    *)
(* bare name when it is empty: at any time the keys opened so far are the   *)
(* first keys of that sequence, and all of it when the run returns.         *)

OpenedKeys ==
    LET opened == SelectSeq(calls, LAMBDA c : c.op = "open" /\ c.ok)
    IN [k \in 1..Len(opened) |-> opened[k].arg]

DestinationKeys ==
    [k \in 1..Len(listing) |->
        IF destination_path = <<>> THEN listing[k]
        ELSE destination_path \o <<"/">> \o listing[k]]

----------------------------------------------------------------------------
(* C9: whenever a run returns successfully, every name of the listing has   *)
(* been retrieved into a destination object that was then closed, and, if   *)
(* move_object is true, has been deleted from the FTP server.               *)

C9_SuccessMeansAllTransferred ==
    Returned =>
        /\ Succeeded("nlst")
        /\ \A i \in 1..Len(listing) :
            /\ \E r \in Idx("retrbinary"), c \in Idx("close") :
                /\ r < c
                /\ calls[r] = Call("retrbinary", i, listing[i], TRUE)
                /\ calls[c].i = i
                /\ calls[c].ok
            /\ move_object =>
                \E d \in Idx("delete") : calls[d] = Call("delete", i, listing[i], TRUE)

C9_Witness ==
    /\ Returned
    /\ move_object
    /\ Len(listing) >= 2
    /\ Count("delete") = Len(listing)

----------------------------------------------------------------------------
(* C10: when the raw bucket name normalizes to the empty string, the        *)
(* program fails with InvalidConfig, before any network activity: no        *)
(* credential lookup, no storage-bucket lookup and no FTP connect.          *)

C10_EmptyBucketRejectedBeforeNetwork ==
    _set_bucket_name(name) = <<>> =>
        /\ Count("get_connection") = 0
        /\ Count("get_bucket") = 0
        /\ Count("connect") = 0
        /\ Terminated => error.type = "InvalidConfig"

----------------------------------------------------------------------------
(* C11: if connect fails, the run fails with a connection error, close      *)
(* (quit) is never called, and no authenticate, changeDirectory, list,      *)
(* retrieve or delete call is made.                                         *)

C11_ConnectFailureNoCleanup ==
    Failed("connect") =>
        /\ Terminated
        /\ Kind(error) = "ConnectionError"
        /\ \A k \in 1..Len(calls) :
            calls[k].op \notin
                {"quit", "login", "cwd", "nlst", "open", "retrbinary", "close", "delete"}

C11_Witness ==
    /\ Terminated
    /\ Failed("connect")
    /\ Succeeded("get_bucket")

----------------------------------------------------------------------------
(* C16: the FTP operations occur in the order connect, authenticate,        *)
(* changeDirectory, list, then per match retrieve and optional delete, then *)
(* close: each is invoked only after the previous one succeeded, connect,   *)
(* authenticate, changeDirectory and list at most once, each match is       *)
(* retrieved and deleted at most once, and nothing follows close.           *)

FtpOps == {"connect", "login", "cwd", "nlst", "retrbinary", "delete", "quit"}

C16_StagesInOrderNoRetry ==
    /\ \A op \in {"connect", "login", "cwd", "nlst"} : Count(op) <= 1
    /\ \A k \in 1..Len(calls) :
        LET c == calls[k] IN
        /\ c.op = "login" => Before(k, "connect", 0, TRUE)
        /\ c.op = "cwd" => Before(k, "login", 0, TRUE)
        /\ c.op = "nlst" => Before(k, "cwd", 0, TRUE)
        /\ c.op = "retrbinary" =>
            /\ Before(k, "nlst", 0, TRUE)
            /\ c.i \in 1..Len(listing)
            /\ c.arg = listing[c.i]
            /\ c.i > 1 =>
                Before(k, IF move_object THEN "delete" ELSE "retrbinary", c.i - 1, TRUE)
        /\ c.op = "delete" =>
            /\ move_object
            /\ c.i \in 1..Len(listing)
            /\ c.arg = listing[c.i]
            /\ k > 2
            /\ calls[k - 2] = Call("retrbinary", c.i, c.arg, TRUE)
        /\ c.op \in {"retrbinary", "delete"} =>
            \A j \in 1..Len(calls) :
                (calls[j].op = c.op /\ calls[j].i = c.i) => j = k
        /\ c.op = "quit" =>
            /\ Before(k, "connect", 0, TRUE)
            /\ \A j \in (k + 1)..Len(calls) : calls[j].op \notin FtpOps

C16_Witness ==
    /\ Returned
    /\ move_object
    /\ Len(listing) = 3
    /\ Count("retrbinary") = 3
    /\ Count("delete") = 3
    /\ calls[Len(calls)].op = "quit"

----------------------------------------------------------------------------
(* C17: every storage write stream that is opened is closed exactly once on *)
(* every exit path (successful or failed retrieve), at most one stream is   *)
(* open at any time, and it is closed before the matching delete, before    *)
(* the next match's stream is opened and before the FTP session is closed.  *)

\* the positions at which the stream opened at position k is closed
ClosesOf(k) ==
    { c \in (k + 1)..Len(calls) : calls[c].op = "close" /\ calls[c].i = calls[k].i }

OpenStreams ==
    { k \in Idx("open") : calls[k].ok /\ ClosesOf(k) = {} }

C17_StreamClosedOnce ==
    /\ Cardinality(OpenStreams) <= 1
    /\ OpenStreams # {} => pc \in {"retrbinary", "close"}
    /\ \A c \in Idx("close") :
        \E k \in 1..(c - 1) : calls[k] = Call("open", calls[c].i, calls[c].arg, TRUE)
    /\ \A k \in Idx("open") :
        calls[k].ok =>
            /\ Cardinality(ClosesOf(k)) <= 1
            /\ \A j \in (k + 1)..Len(calls) :
                (\/ calls[j].op \in {"open", "quit"}
                 \/ calls[j].op = "delete" /\ calls[j].i = calls[k].i)
                    => \E c \in ClosesOf(k) : c < j
            /\ Terminated => Cardinality(ClosesOf(k)) = 1

C17_Witness ==
    /\ Terminated
    /\ Failed("retrbinary")
    /\ Count("delete") >= 1
    /\ Count("open") = 2
    /\ Count("close") = 2

----------------------------------------------------------------------------
(* C12: for every raw bucket name, the normalized destination_bucket does   *)
(* not start with the scheme prefix "gs://" and has no leading or trailing  *)
(* "/".                                                                     *)

NoOuterSlash(s) == s # <<>> => (s[1] # "/" /\ s[Len(s)] # "/")

C12_BucketHasNoSchemeNoSlash ==
    Constructed =>
        /\ ~(Len(destination_bucket) >= 5
             /\ SubSeq(destination_bucket, 1, 5) = <<"g", "s", ":", "/", "/">>)
        /\ NoOuterSlash(destination_bucket)

----------------------------------------------------------------------------
(* C13: for every raw destination path, the normalized destination_path     *)
(* neither starts nor ends with "/", and an absent destination path         *)
(* normalizes to the empty string.                                          *)

C13_PrefixHasNoOuterSlash ==
    Constructed =>
        /\ NoOuterSlash(destination_path)
        /\ path = None => destination_path = <<>>

C13_Witness ==
    /\ Constructed
    /\ path = <<"/", "/", "a", "/", "/">>
    /\ destination_path = <<"a">>

----------------------------------------------------------------------------
(* C14: for every raw bucket name that has no leading and no trailing "/",  *)
(* normalizing "gs://" + name gives the same as normalizing name.           *)

C14_SchemePrefixMakesNoDifference ==
    (Constructed /\ NoOuterSlash(name)) =>
        _set_bucket_name(<<"g", "s", ":", "/", "/">> \o name) = destination_bucket

----------------------------------------------------------------------------
(* C15: for every source path, ftp_file is the segment after the last "/"   *)
(* (it contains no "/") and ftp_folder is everything before that last "/":  *)
(* a path without "/" gives ftp_folder "" and ftp_file equal to the path,   *)
(* and a path with "/" satisfies ftp_folder + "/" + ftp_file = source_path. *)

HasSlash(s) == \E i \in 1..Len(s) : s[i] = "/"

C15_SplitAtLastSlash ==
    Constructed =>
        /\ ~HasSlash(ftp_file)
        /\ ~HasSlash(source_path) => (ftp_folder = <<>> /\ ftp_file = source_path)
        /\ HasSlash(source_path) => ftp_folder \o <<"/">> \o ftp_file = source_path

C15_Witness ==
    /\ Constructed
    /\ source_path = <<"f", "/", "f", "/", "*">>
    /\ ftp_folder = <<"f", "/", "f">>
    /\ ftp_file = <<"*">>

----------------------------------------------------------------------------
(* C18: for every present raw destination path, the normalized              *)
(* destination_path is the input with all trailing "/" removed and then     *)
(* exactly one leading "/" removed if present; a path of slashes only       *)
(* gives the empty string.                                                  *)

\* the positions of s that do not hold a "/"
NonSlash(s) == { i \in 1..Len(s) : s[i] # "/" }

\* s without its trailing "/"
TrailingRemoved(s) ==
    IF NonSlash(s) = {} THEN <<>>
    ELSE SubSeq(s, 1, CHOOSE i \in NonSlash(s) : \A j \in NonSlash(s) : j <= i)

\* s without its leading "/"
LeadingRemoved(s) ==
    IF NonSlash(s) = {} THEN <<>>
    ELSE SubSeq(s, CHOOSE i \in NonSlash(s) : \A j \in NonSlash(s) : i <= j, Len(s))

\* s without one leading "/"
OneLeadingRemoved(s) == IF s # <<>> /\ s[1] = "/" THEN Tail(s) ELSE s

C18_OneLeadingSlashRemoved ==
    (Constructed /\ path # None) =>
        /\ destination_path = OneLeadingRemoved(TrailingRemoved(path))
        /\ NonSlash(path) = {} => destination_path = <<>>

(* C18 as amended: all trailing "/" are removed and then all leading "/"    *)
(* (not only one); a path of slashes only gives the empty string.           *)

C18_AllLeadingSlashesRemoved ==
    (Constructed /\ path # None) =>
        /\ destination_path = LeadingRemoved(TrailingRemoved(path))
        /\ NonSlash(path) = {} => destination_path = <<>>

C18_Witness ==
    /\ Constructed
    /\ path = <<"/", "/", "a", "/", "a">>
    /\ destination_path = <<"a", "/", "a">>

====
